---- MODULE Spec2Model ----
(***************************************************************************)
(* Model of src/image-app.py: a FastAPI service with GET / (upload form)   *)
(* and POST /count_fruits/ (content-type allow-list, image validation with *)
(* PIL, one call to the Gemini model, JSON envelope).                      *)
(*                                                                         *)
(* A request is followed through the statements of count_fruits.  The      *)
(* handler is cut at the points where it hands control to a collaborator   *)
(* (the call to the provider and its return), so that requests served by   *)
(* different workers may interleave there.  PIL and the Gemini client are  *)
(* not part of the repository: Image.open is modelled by what it does to   *)
(* the file object (rewind, header read, no pixel decode), the provider by *)
(* the outcomes a call may have.                                           *)
(***************************************************************************)
EXTENDS Integers, Sequences, FiniteSets, TLC

\* ------------------------------------------------------------------ bounds
\* Number of requests in flight at once.
NumReq == 2
\* Longest upload, in bytes, of the exhaustive validator runs.
MaxLen == 3

Requests == 1..NumReq

\* ------------------------------------------------------------- byte model
\* A byte is abstracted to what the decoder's format sniffing tells apart:
\* "P" the PNG signature, "J" the JPEG start-of-image marker, "E" the marker
\* that ends the pixel data (IEND, EOI), "x" any other byte.
Byte == {"P", "J", "x", "E"}

\* All byte sequences of length at most n.
BytesUpTo(n) == UNION {[1..k -> Byte] : k \in 0..n}

\* The uploads of the concurrent runs: empty, a lone signature (truncated
\* header), random bytes, a PNG, a JPEG.
SampleUploads ==
    {<< >>, <<"P">>, <<"x", "x">>, <<"P", "x", "E">>, <<"J", "x", "E">>}

\* Content types a client may declare: the allow-list and two outside it.
DeclaredTypes ==
    {"image/jpeg", "image/png", "image/jpg", "text/plain", "image/gif"}

\* The content types of the concurrent runs.
SampleTypes == {"image/jpeg", "image/png", "text/plain"}

\* ---------------------------------------------------------- configuration
\* The values GOOGLE_API_KEY may have in the environment ("None": unset).
Environments == {"secret", "None"}

input_prompt == "You are an expert nutritionist. ..."

\* Variant: a load that insists on the credential (os.environ[...]).
configureStrict(key) == [crashed |-> key = "None", api_key |-> key]

\* Module load, lines 12-13: os.getenv returns None for an unset variable
\* and genai.configure stores what it is given; neither raises.
configure(key) == [crashed |-> FALSE, api_key |-> key]

\* ------------------------------------------------------------- file model
\* UploadFile.file: the spooled content, a read cursor, and (history) the
\* calls made on the file object.
NewFile(bytes) == [content |-> bytes, pos |-> 0, ops |-> << >>]

Min(a, b) == IF a < b THEN a ELSE b

\* file.read(): everything from the cursor to the end; cursor moves to end.
FileRead(f) ==
    [data |-> SubSeq(f.content, f.pos + 1, Len(f.content)),
     file |-> [f EXCEPT !.pos = Len(f.content), !.ops = Append(@, "read")]]

\* file.read(n): at most n bytes from the cursor.
FileReadN(f, n) ==
    LET stop == Min(f.pos + n, Len(f.content))
    IN [data |-> SubSeq(f.content, f.pos + 1, stop),
        file |-> [f EXCEPT !.pos = stop, !.ops = Append(@, "read")]]

\* file.seek(n)
FileSeek(f, n) == [f EXCEPT !.pos = n, !.ops = Append(@, "seek")]

\* --------------------------------------------------------- image decoding
\* Bytes the decoder's header parse consumes: the signature and one header
\* byte.
HeaderLen == 2

\* The format whose header the bytes start with, if any.
ImageFormat(bytes) ==
    IF Len(bytes) >= HeaderLen /\ bytes[1] = "P" THEN "PNG"
    ELSE IF Len(bytes) >= HeaderLen /\ bytes[1] = "J" THEN "JPEG"
    ELSE "none"

\* The bytes start with a complete PNG or JPEG header.
HeaderValid(bytes) == ImageFormat(bytes) # "none"

\* PIL.Image.open(fp) on a file object, line 74: rewinds fp to 0, reads the
\* header lazily (not the pixel data) and raises when no format accepts it.
ImageOpen(f) ==
    LET rd == FileReadN(FileSeek(f, 0), HeaderLen)
        fmt == ImageFormat(rd.data)
    IN  [ok |-> fmt # "none", format |-> fmt, file |-> rd.file,
         msg |-> IF fmt # "none" THEN "" ELSE "cannot identify image file"]

\* HTTPException(status_code, detail).  A detail is kept as the sequence of
\* its pieces: the fixed text, then str(e) where an f-string appends it.
HTTPException(status, detail) ==
    [kind |-> "HTTPException", status |-> status, detail |-> detail]

\* ------------------------------------------------------ input_image_setup
\* Lines 65-84.  Returns the list of one part, or the HTTPException raised,
\* with the file as the call leaves it.
\* Variant: the bytes are read after Image.open instead of before it.
input_image_setup_read_after_open(uploaded_file) ==
    LET img == ImageOpen(uploaded_file.file)
        rd == FileRead(img.file)
    IN  IF img.ok
        THEN [raised |-> FALSE,
              value |-> << [mime_type |-> uploaded_file.content_type,
                            data |-> rd.data] >>,
              file |-> FileSeek(rd.file, 0)]
        ELSE [raised |-> TRUE,
              exc |-> HTTPException(400, <<"Invalid image file: ", img.msg>>),
              file |-> img.file]

\* Variant: line 75 left out.
input_image_setup_no_seek(uploaded_file) ==
    LET rd == FileRead(uploaded_file.file)
        img == ImageOpen(rd.file)
    IN  IF img.ok
        THEN [raised |-> FALSE,
              value |-> << [mime_type |-> uploaded_file.content_type,
                            data |-> rd.data] >>,
              file |-> img.file]
        ELSE [raised |-> TRUE,
              exc |-> HTTPException(400, <<"Invalid image file: ", img.msg>>),
              file |-> img.file]

input_image_setup(uploaded_file) ==
    LET rd == FileRead(uploaded_file.file)
        bytes_data == rd.data
        img == ImageOpen(rd.file)
    IN  IF img.ok
        THEN [raised |-> FALSE,
              value |-> << [mime_type |-> uploaded_file.content_type,
                            data |-> bytes_data] >>,
              file |-> FileSeek(img.file, 0)]
        ELSE [raised |-> TRUE,
              exc |-> HTTPException(400, <<"Invalid image file: ", img.msg>>),
              file |-> img.file]

\* ---------------------------------------------------- get_gemini_response
\* What the provider may answer to one generate_content call.  Without a
\* credential the client has nothing to authenticate with and the call
\* raises; with one it returns text or raises (network, quota, blocked
\* response whose .text raises).
Texts == {"{\"status\": \"success\"}", "  two apples \n"}

ProviderOutcomes(key) ==
    IF key = "None"
    THEN {[ok |-> FALSE, text |-> "", err |-> "No API_KEY or ADC found"]}
    ELSE {[ok |-> TRUE, text |-> t, err |-> ""] : t \in Texts}
         \cup {[ok |-> FALSE, text |-> "", err |-> "429 quota exceeded"]}

\* Line 60: the argument of generate_content, [prompt, image_data[0]].
GeminiRequest(prompt, image_data) == <<prompt, image_data[1]>>

\* Variant: the failure is swallowed and an empty text returned.
get_gemini_response_swallow(outcome) ==
    [raised |-> FALSE, value |-> outcome.text]

\* Lines 61-63: response.text, or HTTPException(500) for any exception.
get_gemini_response(outcome) ==
    IF outcome.ok
    THEN [raised |-> FALSE, value |-> outcome.text]
    ELSE [raised |-> TRUE,
          exc |-> HTTPException(500,
                    <<"Error communicating with Gemini API: ", outcome.err>>)]

\* ------------------------------------------------------------ count_fruits
AllowList == {"image/jpeg", "image/png", "image/jpg"}

\* Line 112.
\* Variant: no allow-list check.
ContentTypeAllowedAny(content_type) == TRUE

ContentTypeAllowed(content_type) == content_type \in AllowList

\* Line 113.
UnsupportedMediaType ==
    HTTPException(400, <<"Unsupported file type. Please upload a JPEG or PNG image.">>)

\* Variant: lines 124-125 left out, so the catch-all takes every exception.
count_fruits_except_all(exc) ==
    HTTPException(500, <<"Unexpected error: ", exc.kind>>)

\* Lines 124-127: an HTTPException raised inside the try block is re-raised
\* as it is; any other exception becomes HTTPException(500).
count_fruits_except(exc) ==
    IF exc.kind = "HTTPException"
    THEN exc
    ELSE HTTPException(500, <<"Unexpected error: ", exc.msg>>)

\* The framework answers an HTTPException with its status and
\* {"detail": detail}.
ErrorResponse(exc) == [status |-> exc.status, body |-> [detail |-> exc.detail]]

\* Variant: the envelope of the prompt's example ("status": "success").
SuccessResponseStatus(response) ==
    [status |-> 200, body |-> [status |-> "success", data |-> response]]

\* Line 123, answered with status 200.
SuccessResponse(response) ==
    [status |-> 200, body |-> [success |-> TRUE, data |-> response]]

\* Lines 86-105: the upload form.
MainResponse ==
    [status |-> 200, content_type |-> "text/html",
     form_action |-> "/count_fruits/", form_method |-> "post"]

VARIABLES
    up,          \* the module was imported and the server is serving
    api_key,     \* what genai.configure stored
    page,        \* responses sent for GET /
    pc,          \* pc[r]: where request r is in count_fruits
    upload,      \* upload[r]: the UploadFile (content_type, file)
    uploaded,    \* uploaded[r]: the bytes the client sent (history)
    image_data,  \* image_data[r]: the handler's local image_data
    outbound,    \* outbound[r]: generate_content calls made for r
    reply,       \* reply[r]: what the provider answered to r's call
    response,    \* response[r]: the handler's local response
    http,        \* http[r]: HTTP responses sent for r
    log          \* log[r]: stages r went through (history)

vars == <<up, api_key, page, pc, upload, uploaded, image_data, outbound,
          reply, response, http, log>>

NoUpload == [content_type |-> "", file |-> NewFile(<< >>)]

Init ==
    \E env \in Environments :
        LET c == configure(env)
        IN  /\ up = ~c.crashed
            /\ api_key = c.api_key
            /\ page = << >>
            /\ pc = [r \in Requests |-> "Idle"]
            /\ upload = [r \in Requests |-> NoUpload]
            /\ uploaded = [r \in Requests |-> << >>]
            /\ image_data = [r \in Requests |-> << >>]
            /\ outbound = [r \in Requests |-> << >>]
            /\ reply = [r \in Requests |-> << >>]
            /\ response = [r \in Requests |-> << >>]
            /\ http = [r \in Requests |-> << >>]
            /\ log = [r \in Requests |-> << >>]

\* GET /
GetMain ==
    /\ up
    /\ page' = <<MainResponse>>
    /\ UNCHANGED <<up, api_key, pc, upload, uploaded, image_data, outbound,
                   reply, response, http, log>>

\* POST /count_fruits/ arrives: the framework has spooled the part into
\* file.file and rewound it.
Receive(r, content_type, bytes) ==
    /\ up
    /\ pc[r] = "Idle"
    /\ pc' = [pc EXCEPT ![r] = "Received"]
    /\ upload' = [upload EXCEPT
                    ![r] = [content_type |-> content_type, file |-> NewFile(bytes)]]
    /\ uploaded' = [uploaded EXCEPT ![r] = bytes]
    /\ log' = [log EXCEPT ![r] = Append(@, "Received")]
    /\ UNCHANGED <<up, api_key, page, image_data, outbound, reply, response, http>>

\* Lines 112-113: content type outside the allow-list.
Reject(r) ==
    /\ pc[r] = "Received"
    /\ ~ContentTypeAllowed(upload[r].content_type)
    /\ http' = [http EXCEPT ![r] = Append(@, ErrorResponse(UnsupportedMediaType))]
    /\ pc' = [pc EXCEPT ![r] = "Responded"]
    /\ log' = [log EXCEPT ![r] = Append(@, "Responded")]
    /\ UNCHANGED <<up, api_key, page, upload, uploaded, image_data, outbound,
                   reply, response>>

\* Lines 112, 115-117 and 124-125: input_image_setup(file); the
\* HTTPException it raises is re-raised by the handler.
Validate(r) ==
    /\ pc[r] = "Received"
    /\ ContentTypeAllowed(upload[r].content_type)
    /\ LET res == input_image_setup(upload[r])
       IN  /\ upload' = [upload EXCEPT ![r].file = res.file]
           /\ IF res.raised
              THEN /\ http' = [http EXCEPT ![r] = Append(@, ErrorResponse(count_fruits_except(res.exc)))]
                   /\ pc' = [pc EXCEPT ![r] = "Responded"]
                   /\ log' = [log EXCEPT ![r] = Append(@, "Responded")]
                   /\ UNCHANGED image_data
              ELSE /\ image_data' = [image_data EXCEPT ![r] = res.value]
                   /\ pc' = [pc EXCEPT ![r] = "Validated"]
                   /\ log' = [log EXCEPT ![r] = Append(@, "Validated")]
                   /\ UNCHANGED http
    /\ UNCHANGED <<up, api_key, page, uploaded, outbound, reply, response>>

\* Variant: the provider is called with the upload as received, without
\* input_image_setup.
InvokeUnvalidated(r) ==
    /\ pc[r] = "Received"
    /\ ContentTypeAllowed(upload[r].content_type)
    /\ outbound' = [outbound EXCEPT
                      ![r] = Append(@, GeminiRequest(input_prompt,
                                 << [mime_type |-> upload[r].content_type,
                                     data |-> upload[r].file.content] >>))]
    /\ pc' = [pc EXCEPT ![r] = "Calling"]
    /\ UNCHANGED <<up, api_key, page, upload, uploaded, image_data, reply,
                   response, http, log>>

\* Variant: image_data kept in one module-level variable shared by the
\* requests.
SharedImageData(r) ==
    image_data[CHOOSE s \in Requests : Len(image_data[s]) > 0]

\* Line 117: image_data is a local of the call handling r.
LocalImageData(r) == image_data[r]

\* Lines 120, 59-60: the one generate_content call leaves for the provider.
Invoke(r) ==
    /\ pc[r] = "Validated"
    /\ outbound' = [outbound EXCEPT
                      ![r] = Append(@, GeminiRequest(input_prompt, LocalImageData(r)))]
    /\ pc' = [pc EXCEPT ![r] = "Calling"]
    /\ UNCHANGED <<up, api_key, page, upload, uploaded, image_data, reply,
                   response, http, log>>

\* Lines 60-63, 120 and 124-125: the call returns text, or fails and the
\* HTTPException(500) passes through the handler.
ProviderReturn(r, outcome) ==
    /\ pc[r] = "Calling"
    /\ reply' = [reply EXCEPT ![r] = Append(@, outcome)]
    /\ LET res == get_gemini_response(outcome)
       IN  IF res.raised
           THEN /\ http' = [http EXCEPT ![r] = Append(@, ErrorResponse(count_fruits_except(res.exc)))]
                /\ pc' = [pc EXCEPT ![r] = "Responded"]
                /\ log' = [log EXCEPT ![r] = Append(@, "Responded")]
                /\ UNCHANGED response
           ELSE /\ response' = [response EXCEPT ![r] = <<res.value>>]
                /\ pc' = [pc EXCEPT ![r] = "Inferred"]
                /\ log' = [log EXCEPT ![r] = Append(@, "Inferred")]
                /\ UNCHANGED http
    /\ UNCHANGED <<up, api_key, page, upload, uploaded, image_data, outbound>>

\* Line 123.
Respond(r) ==
    /\ pc[r] = "Inferred"
    /\ http' = [http EXCEPT ![r] = Append(@, SuccessResponse(response[r][1]))]
    /\ pc' = [pc EXCEPT ![r] = "Responded"]
    /\ log' = [log EXCEPT ![r] = Append(@, "Responded")]
    /\ UNCHANGED <<up, api_key, page, upload, uploaded, image_data, outbound,
                   reply, response>>

Handle(r) ==
    \/ Reject(r)
    \/ Validate(r)
    \/ Invoke(r)
    \/ \E outcome \in ProviderOutcomes(api_key) : ProviderReturn(r, outcome)
    \/ Respond(r)

Next ==
    \/ GetMain
    \/ \E r \in Requests, ct \in SampleTypes, bytes \in SampleUploads :
           Receive(r, ct, bytes)
    \/ \E r \in Requests : Handle(r)

Spec == Init /\ [][Next]_vars

\* One request, every upload of at most MaxLen bytes.
NextValidate ==
    \/ \E ct \in DeclaredTypes, bytes \in BytesUpTo(MaxLen) : Receive(1, ct, bytes)
    \/ Handle(1)

SpecValidate == Init /\ [][NextValidate]_vars

\* The runs under fairness take one upload and one content type for each
\* path through the handler: rejected type, failed validation, validated.
NextLive ==
    \/ \E r \in Requests, ct \in {"image/png", "text/plain"},
          bytes \in {<<"x", "x">>, <<"P", "x", "E">>} : Receive(r, ct, bytes)
    \/ \E r \in Requests : Handle(r)

\* Each request's handler runs to its end, and the provider answers every
\* call it was sent (it returns or fails).
LiveSpec ==
    Init /\ [][NextLive]_vars /\ \A r \in Requests : WF_vars(Handle(r))

\* ================================================================ claims
\* The bytes decode as a raster image (opening and loading it succeeds): a
\* complete header, and pixel data that runs to its end marker.
Decodable(bytes) ==
    /\ HeaderValid(bytes)
    /\ Len(bytes) > HeaderLen
    /\ bytes[Len(bytes)] = "E"

\* The allow-list as the specification states it.
SpecAllowList == {"image/jpeg", "image/png", "image/jpg"}

Arrived(r) == pc[r] # "Idle"

Answered(r) == pc[r] = "Responded"

DeclaredType(r) == upload[r].content_type

\* The validator ran for r and returned a packaged unit.
ValidationPassed(r) == image_data[r] # << >>

\* The validator ran for r and raised.
ValidationFailed(r) ==
    upload[r].file.ops # << >> /\ image_data[r] = << >>

\* The provider answered r's call with text.
InferencePassed(r) == reply[r] # << >> /\ reply[r][1].ok

\* The provider's call for r failed.
InferenceFailed(r) == reply[r] # << >> /\ ~reply[r][1].ok

\* C1: a request whose declared content type is outside the allow-list is
\* answered 400 (unsupported type) and nothing else is done for it: its file
\* is never read, sought or decoded, no unit is packaged, and no call goes
\* to the provider, whatever its bytes are.
C1_UnsupportedTypeRejectedFirst ==
    \A r \in Requests :
        (Arrived(r) /\ DeclaredType(r) \notin SpecAllowList) =>
            /\ pc[r] \in {"Received", "Responded"}
            /\ upload[r].file = NewFile(uploaded[r])
            /\ image_data[r] = << >>
            /\ outbound[r] = << >>
            /\ reply[r] = << >>
            /\ response[r] = << >>
            /\ Answered(r) =>
                 http[r] = << [status |-> 400,
                               body |-> [detail |->
                                 <<"Unsupported file type. Please upload a JPEG or PNG image.">>]] >>

\* C1 witness: a text/plain request carrying a decodable image was answered.
C1_Witness ==
    \E r \in Requests :
        /\ Answered(r)
        /\ DeclaredType(r) = "text/plain"
        /\ Decodable(uploaded[r])

\* C2 (as claimed): a request with an allow-listed type whose bytes do not
\* decode as a raster image never gets past validation: no call goes to the
\* provider, and it is answered 400 with the decode failure's message.
C2_UndecodableRejected ==
    \A r \in Requests :
        (Arrived(r) /\ DeclaredType(r) \in SpecAllowList /\ ~Decodable(uploaded[r])) =>
            /\ pc[r] \in {"Received", "Responded"}
            /\ image_data[r] = << >>
            /\ outbound[r] = << >>
            /\ Answered(r) =>
                 /\ Len(http[r]) = 1
                 /\ http[r][1].status = 400
                 /\ http[r][1].body.detail =
                      <<"Invalid image file: ", "cannot identify image file">>

\* C3: allow-listed type, decodable bytes and a provider call that returned
\* text T: the answer is status 200 with body {"success": true, "data": T},
\* T exactly as the provider gave it.
C3_SuccessEnvelope ==
    \A r \in Requests :
        (/\ DeclaredType(r) \in SpecAllowList
         /\ Decodable(uploaded[r])
         /\ InferencePassed(r)) =>
            /\ pc[r] \in {"Inferred", "Responded"}
            /\ response[r] = <<reply[r][1].text>>
            /\ Answered(r) =>
                 http[r] = << [status |-> 200,
                               body |-> [success |-> TRUE,
                                         data |-> reply[r][1].text]] >>

\* C3 witness: a decodable upload was answered after the provider returned
\* the text with leading and trailing whitespace.
C3_Witness ==
    \E r \in Requests :
        /\ Answered(r)
        /\ Decodable(uploaded[r])
        /\ InferencePassed(r)
        /\ reply[r][1].text = "  two apples \n"

\* C4: when the provider's call fails, the request is answered 500 with the
\* Gemini-error detail carrying the failure's description, exactly one call
\* was made for it, and the bytes packaged and sent are the uploaded bytes.
C4_InferenceFailure ==
    \A r \in Requests :
        InferenceFailed(r) =>
            /\ Answered(r)
            /\ http[r] = << [status |-> 500,
                             body |-> [detail |->
                               <<"Error communicating with Gemini API: ",
                                 reply[r][1].err>>]] >>
            /\ Len(outbound[r]) = 1
            /\ Len(reply[r]) = 1
            /\ outbound[r][1][2].data = uploaded[r]
            /\ image_data[r][1].data = uploaded[r]
            /\ upload[r].file.content = uploaded[r]

\* C4 witness: a provider call failed.
C4_Witness == \E r \in Requests : InferenceFailed(r) /\ Answered(r)

\* C5: for bytes B that decode as a JPEG/PNG and any declared type M,
\* input_image_setup succeeds with exactly one unit, data = B and
\* mime_type = M, also when M names another format than B's.
C5_ValidateRoundTrip ==
    \A r \in Requests :
        (Arrived(r) /\ Decodable(uploaded[r])) =>
            /\ \A m \in DeclaredTypes :
                 LET res == input_image_setup(
                              [content_type |-> m, file |-> NewFile(uploaded[r])])
                 IN  /\ ~res.raised
                     /\ res.value = << [mime_type |-> m, data |-> uploaded[r]] >>
            /\ (pc[r] # "Received" /\ DeclaredType(r) \in SpecAllowList) =>
                 image_data[r] = << [mime_type |-> DeclaredType(r),
                                     data |-> uploaded[r]] >>

\* C5 witness: a PNG declared as image/jpeg went through validation.
C5_Witness ==
    \E r \in Requests :
        /\ pc[r] = "Validated"
        /\ Decodable(uploaded[r])
        /\ ImageFormat(uploaded[r]) = "PNG"
        /\ DeclaredType(r) = "image/jpeg"

\* The stages of the specification's state machine, in order.
Stages == <<"Received", "Validated", "Inferred">>

IsPrefix(s, t) == Len(s) <= Len(t) /\ s = SubSeq(t, 1, Len(s))

\* log[r] without its closing "Responded".
StagesPassed(r) ==
    IF log[r] # << >> /\ log[r][Len(log[r])] = "Responded"
    THEN SubSeq(log[r], 1, Len(log[r]) - 1)
    ELSE log[r]

\* The state part of C6: stages in order, one response exactly when
\* answered, at most one call, a call only after validation, a 200 only
\* after the call returned.
C6_StageInv ==
    \A r \in Requests :
        /\ IsPrefix(StagesPassed(r), Stages)
        /\ Arrived(r) <=> log[r] # << >>
        /\ Answered(r) <=> (Len(log[r]) > 1 /\ log[r][Len(log[r])] = "Responded")
        /\ Len(http[r]) = (IF Answered(r) THEN 1 ELSE 0)
        /\ Len(outbound[r]) <= 1
        /\ Len(reply[r]) <= Len(outbound[r])
        /\ outbound[r] # << >> =>
             /\ DeclaredType(r) \in SpecAllowList
             /\ ValidationPassed(r)
             /\ Len(log[r]) >= 2 /\ log[r][2] = "Validated"
        /\ (http[r] # << >> /\ http[r][1].status = 200) =>
             /\ InferencePassed(r)
             /\ log[r] = Stages \o <<"Responded">>

\* C6: every request goes Received -> Validated -> Inferred -> Responded,
\* leaving early only to an error response: the provider is called only
\* after the type check and validation succeeded, a success is sent only
\* after the call returned, no stage is skipped or repeated, a response once
\* sent is final, and every received request is eventually answered.
C6_StageOrder ==
    /\ []C6_StageInv
    /\ [][\A r \in Requests :
            http[r] # << >> =>
                /\ http'[r] = http[r]
                /\ pc'[r] = pc[r]
                /\ log'[r] = log[r]
                /\ outbound'[r] = outbound[r]]_vars
    /\ \A r \in Requests : (pc[r] = "Received") ~> Answered(r)

\* C6 witness: a request has passed through all four stages.
C6_Witness ==
    \E r \in Requests : log[r] = <<"Received", "Validated", "Inferred", "Responded">>

\* What decides a request's answer, and what it shows to the outside.
OwnInputs(r) == <<DeclaredType(r), uploaded[r], reply[r]>>

Observable(r) == <<outbound[r], http[r]>>

\* C7: under every interleaving, what a request sends to the provider is
\* its own bytes and declared type, what it returns is the text of its own
\* call, and two requests at the same point with the same own inputs show
\* the same output whatever the other requests are doing.
C7_Isolation ==
    /\ \A r \in Requests :
         /\ outbound[r] # << >> =>
              outbound[r][1] = <<input_prompt,
                                 [mime_type |-> DeclaredType(r), data |-> uploaded[r]]>>
         /\ (http[r] # << >> /\ http[r][1].status = 200) =>
              /\ InferencePassed(r)
              /\ http[r][1].body.data = reply[r][1].text
    /\ \A r, s \in Requests :
         (pc[r] = pc[s] /\ OwnInputs(r) = OwnInputs(s)) =>
             Observable(r) = Observable(s)

\* C7 witness: one request's call is in flight while another's, for other
\* bytes, has already returned.
C7_Witness ==
    \E r, s \in Requests :
        /\ pc[r] = "Calling"
        /\ pc[s] = "Inferred"
        /\ uploaded[r] # uploaded[s]
        /\ DeclaredType(r) # DeclaredType(s)

\* C8: an answered request has exactly one response; it is a 200 success
\* envelope exactly when the type check, validation and provider call all
\* succeeded; otherwise it is an error with a non-empty detail, 400 when the
\* type was rejected or validation raised, 500 when the provider call
\* failed.
C8_NoFailureMasked ==
    \A r \in Requests :
        /\ Answered(r) => Len(http[r]) = 1
        /\ http[r] # << >> =>
             LET h == http[r][1]
                 typeOk == DeclaredType(r) \in SpecAllowList
                 allOk == typeOk /\ ValidationPassed(r) /\ InferencePassed(r)
             IN  /\ h.status = 200 <=> allOk
                 /\ h.status = 200 => DOMAIN h.body = {"success", "data"} /\ h.body.success
                 /\ h.status # 200 =>
                      /\ DOMAIN h.body = {"detail"}
                      /\ h.body.detail # << >> /\ h.body.detail[1] # ""
                      /\ (~typeOk \/ ValidationFailed(r)) => h.status = 400
                      /\ InferenceFailed(r) => h.status = 500
                      /\ h.status \in {400, 500}

\* C8 witness: a validation failure came back through the handler's except
\* clauses as a 400.
C8_Witness ==
    \E r \in Requests :
        /\ Answered(r)
        /\ ValidationFailed(r)
        /\ http[r][1].status = 400

\* C9: with no credential in the environment the process is up, GET / is
\* served as usual, rejected types and failed validations are answered 400,
\* and every request that reached the provider call is answered 500, never
\* 200.
C9_AbsentCredential ==
    api_key = "None" =>
        /\ up
        /\ ENABLED GetMain
        /\ page \in {<< >>, <<MainResponse>>}
        /\ \A r \in Requests :
             Answered(r) =>
                 /\ outbound[r] # << >> => http[r][1].status = 500
                 /\ outbound[r] = << >> => http[r][1].status = 400

\* C9 witness: without a credential, GET / was served and a request that
\* reached the provider call was answered.
C9_Witness ==
    /\ api_key = "None"
    /\ page = <<MainResponse>>
    /\ \E r \in Requests : Answered(r) /\ outbound[r] # << >>

\* C10: once input_image_setup has returned a unit, the file's cursor is at
\* 0, its content is what was uploaded, a full read gives the unit's data,
\* the only calls made on the file are the read, the decoder's rewind and
\* header read, and the final seek, nothing has gone to the provider at
\* that point, and the decoder judged the content from its first byte:
\* validation passes exactly when the content starts with a valid header.
C10_ValidateFrame ==
    \A r \in Requests :
        /\ ValidationPassed(r) =>
             /\ upload[r].file.pos = 0
             /\ upload[r].file.content = uploaded[r]
             /\ FileRead(upload[r].file).data = image_data[r][1].data
             /\ upload[r].file.ops = <<"read", "seek", "read", "seek">>
             /\ HeaderValid(uploaded[r])
             /\ pc[r] = "Validated" =>
                  outbound[r] = << >> /\ reply[r] = << >> /\ http[r] = << >>
        /\ ValidationFailed(r) =>
             /\ ~HeaderValid(uploaded[r])
             /\ outbound[r] = << >>

\* C10 witness: validation passed on an upload longer than its header.
C10_Witness ==
    \E r \in Requests :
        /\ pc[r] = "Validated"
        /\ Len(uploaded[r]) > HeaderLen

====
